---- MODULE Spec2Model ----
(***************************************************************************)
(* Model of the MP3-to-MIDI percussion generator.                          *)
(*                                                                         *)
(*   app/core.py  process_audio : separation, loop-window search,          *)
(*                                onset classification, tick scheduling    *)
(*   app/main.py  task store, background task, download endpoints          *)
(*                                                                         *)
(* Three specifications share the module:                                  *)
(*   SpecSchedule  the transcription loop of process_audio (lines 124-215) *)
(*   SpecLoop      the loop-window search of process_audio (lines 91-118)  *)
(*   Spec          the HTTP service running jobs concurrently              *)
(*                                                                         *)
(* Times are exact rationals <<num, den>> (seconds); sample positions and  *)
(* ticks are integers.  Floating-point rounding error is not modelled.     *)
(***************************************************************************)
EXTENDS Integers, Sequences, FiniteSets, TLC

VARIABLES
    \* ---- transcription loop (core.py 124-215)
    spc,            \* position in the transcription code
    y_loop_len,     \* len(y_loop) after librosa.load of the loop file
    onset_frames,   \* librosa.onset.onset_detect output
    sorted_onsets,  \* sorted(onset_times), each a rational <<num, den>>
    tempo,          \* beats per minute
    quantization,   \* the quantization argument
    oi,             \* index of the onset the for-loop is at (1-based)
    segment,        \* spectrum of the segment last analysed (or <<>>)
    seg_len,        \* end_sample - start_sample of the onset last analysed
    note,           \* note of the onset last analysed
    abs_ticks,      \* abs_ticks of the onset last analysed (after quantize)
    raw_ticks,      \* time_to_ticks(onset_time) of the onset last analysed
    duration_ticks, \* time_to_ticks(0.1) of the onset last analysed
    events,         \* the events list
    track,          \* the MidiTrack: messages in emission order
    last_ticks,     \* last_ticks of the emission loop
    avg_centroid,   \* np.mean(spectral_centroid) of the segment last analysed
    \* ---- loop-window search (core.py 91-118)
    lpc,            \* position in the window-search code
    y_len,          \* len(y): samples of the separated stem
    onset_env,      \* onset-strength envelope of the low-passed stem
    window_frames,
    start_frame,
    end_frame,
    start_time,     \* rational <<num, den>>
    end_time,       \* rational <<num, den>>
    y_loop,         \* the crop y[lo:hi] as <<lo, hi>> (sample indices, hi exclusive)
    \* ---- the service (main.py) and the jobs it runs
    tasks,          \* the in-memory task store: task_id -> entry
    pc,             \* per task: position of its request / background task
    args,           \* per task: arguments of run_processing_task
    y,              \* per task: the stem process_audio loaded
    job_tempo,      \* per task: the local tempo of process_audio
    raised,         \* per task: the exception process_audio raised, or "none"
    reports,        \* per task: progress values delivered through the callback
    stages,         \* per task: pipeline stages process_audio has entered
    retval,         \* per task: the value process_audio returned, or NoValue
    files,          \* the working directory: set of [path, content]
    figs,           \* pyplot's open figures, the current one last
    served          \* files the download endpoints have sent: set of [task, path]

schedVars == <<spc, y_loop_len, onset_frames, sorted_onsets, quantization, oi,
               segment, seg_len, avg_centroid, note, abs_ticks, raw_ticks,
               duration_ticks, events, track, last_ticks>>
loopVars  == <<lpc, y_len, onset_env, window_frames, start_frame, end_frame,
               start_time, end_time, y_loop>>
jobVars   == <<tasks, pc, args, y, job_tempo, raised, reports, stages, retval,
               files, figs, served>>

\* ------------------------------------------------------------------------
\* Program constants
\* ------------------------------------------------------------------------
ticks_per_beat == 480     \* mid.ticks_per_beat of a fresh mido.MidiFile
sr == 44100               \* sample rate of the Demucs stem (librosa.load sr=None)
hop_length == 512         \* hop of the onset envelope and of frames_to_time
KICK == 36
SNARE == 38
HIHAT == 42
LOW_BINS == 7             \* S[:7, :]
HIGH_BIN == 93            \* S[93:, :]
N_FFT == 2048             \* librosa.stft default n_fft
CENTROID_HZ == 3500       \* avg_centroid < 3500
NOTE_VELOCITY == 100

\* ------------------------------------------------------------------------
\* Arithmetic helpers
\* ------------------------------------------------------------------------
Min(a, b) == IF a <= b THEN a ELSE b
Max(a, b) == IF a >= b THEN a ELSE b

\* Python's round(n / d) for integers n >= 0, d > 0: nearest integer, ties to
\* the even neighbour.
RoundHalfEven(n, d) ==
    LET q == n \div d
        r == n % d
    IN  IF 2 * r < d THEN q
        ELSE IF 2 * r > d THEN q + 1
        ELSE IF q % 2 = 0 THEN q ELSE q + 1

\* int(x) of a non-negative rational <<num, den>>: truncation.
IntOf(x) == x[1] \div x[2]

RECURSIVE GCD(_, _)
GCD(a, b) == IF b = 0 THEN a ELSE GCD(b, a % b)

\* The rational n / d in lowest terms (d > 0, n >= 0).
Rat(n, d) == LET g == GCD(n, d) IN <<n \div g, d \div g>>

\* librosa.frames_to_time(frame, sr=sr): frame * hop_length / sr seconds.
frames_to_time(f) == Rat(f * hop_length, sr)

RatLess(a, b) == a[1] * b[2] < b[1] * a[2]
RatLeq(a, b)  == a[1] * b[2] <= b[1] * a[2]

\* ------------------------------------------------------------------------
\* Transcription loop: core.py 124-215
\* ------------------------------------------------------------------------
MaxOnsets == 2                       \* longest onset list explored
OnsetFrameChoices == {0, 5, 86}      \* frames onset_detect may report
YLoopLens == {44032}                 \* loop length in samples: 86 * 512
Tempos == {117, 120}
Quantizations == {0, 7, 16, 1921}
ProbeBins == {6, 7, 93}              \* STFT rows carrying energy in the explored spectra
Mags == 0..2                         \* row sums of |S| over the segment's frames
Centroids == {3499, 3500}            \* values of np.mean(spectral_centroid), Hz

\* |STFT| of a segment, summed over its frames, as row -> magnitude.
Spectra == [ProbeBins -> Mags]

SeqsUpTo(S, n) == UNION {[1..k -> S] : k \in 0..n}

\* sorted(xs) for a sequence of integers (insertion sort, ascending).
RECURSIVE InsertInt(_, _)
InsertInt(x, s) ==
    IF s = <<>> THEN <<x>>
    ELSE IF x < Head(s) THEN <<x>> \o s
    ELSE <<Head(s)>> \o InsertInt(x, Tail(s))

RECURSIVE SortedInts(_)
SortedInts(s) == IF s = <<>> THEN <<>> ELSE InsertInt(Head(s), SortedInts(Tail(s)))

\* onset_times = frames_to_time(onset_frames); sorted_onsets = sorted(onset_times).
\* frames_to_time is increasing, so sorting the times is sorting the frames.
SortedOnsetTimes(frames) ==
    LET fs == SortedInts(frames)
    IN  [i \in 1..Len(fs) |-> frames_to_time(fs[i])]

\* def time_to_ticks(t): return int(t * (tempo / 60) * ticks_per_beat)
time_to_ticks(t) == (t[1] * tempo * ticks_per_beat) \div (t[2] * 60)

\* np.sum(S[:7, :])
LowEnergy(S) ==
    LET RECURSIVE Sum(_)
        Sum(bs) == IF bs = {} THEN 0
                   ELSE LET b == CHOOSE x \in bs : TRUE
                        IN  (IF b < LOW_BINS THEN S[b] ELSE 0) + Sum(bs \ {b})
    IN  Sum(DOMAIN S)

\* np.sum(S[93:, :])
HighEnergy(S) ==
    LET RECURSIVE Sum(_)
        Sum(bs) == IF bs = {} THEN 0
                   ELSE LET b == CHOOSE x \in bs : TRUE
                        IN  (IF b >= HIGH_BIN THEN S[b] ELSE 0) + Sum(bs \ {b})
    IN  Sum(DOMAIN S)

\* The classification of core.py 174-181; 0.8 is 8/10.
ClassifySwapped(S, centroid) ==
    IF centroid < CENTROID_HZ
    THEN (IF 10 * LowEnergy(S) > 8 * HighEnergy(S) THEN KICK ELSE SNARE)
    ELSE HIHAT

Classify(S, centroid) ==
    IF 10 * LowEnergy(S) > 8 * HighEnergy(S) THEN KICK
    ELSE IF centroid < CENTROID_HZ THEN SNARE
    ELSE HIHAT

\* grid_ticks = int(ticks_per_beat * 4 / quantization), quantization > 0
GridTicks(q) == (ticks_per_beat * 4) \div q

\* round(abs_ticks / grid_ticks) * grid_ticks, grid_ticks > 0
Snap(ticks, grid) == RoundHalfEven(ticks, grid) * grid

\* events.sort(key=lambda x: x[0]): stable, ascending by tick.
RECURSIVE InsertEvent(_, _)
InsertEvent(e, s) ==
    IF s = <<>> THEN <<e>>
    ELSE IF e.ticks < Head(s).ticks THEN <<e>> \o s
    ELSE <<Head(s)>> \o InsertEvent(e, Tail(s))

RECURSIVE SortEventsFrom(_, _)
SortEventsFrom(s, acc) ==
    IF s = <<>> THEN acc
    ELSE SortEventsFrom(Tail(s), InsertEvent(Head(s), acc))

\* A scheduler that skips the sort and emits in insertion order.
UnsortedEvents(es) == es

SortEvents(es) == SortEventsFrom(es, <<>>)

NoSegment == [b \in {} |-> 0]

TaskIds == {"t1", "t2"}              \* values uuid.uuid4() returns
NoPath == [kind |-> "None"]
NoValue == [midi_path |-> NoPath]

InitJobsIdle ==
    /\ tasks = [t \in {} |-> 0]
    /\ pc = [t \in TaskIds |-> "idle"]
    /\ args = [t \in TaskIds |-> [mode |-> "none"]]
    /\ y = [t \in TaskIds |-> [src |-> "none", samples |-> 0]]
    /\ job_tempo = [t \in TaskIds |-> 0]
    /\ raised = [t \in TaskIds |-> "none"]
    /\ reports = [t \in TaskIds |-> <<>>]
    /\ stages = [t \in TaskIds |-> {}]
    /\ retval = [t \in TaskIds |-> NoValue]
    /\ files = {}
    /\ figs = <<>>
    /\ served = {}

InitLoopIdle ==
    /\ lpc = "idle" /\ y_len = 0 /\ onset_env = <<>> /\ window_frames = 0
    /\ start_frame = 0 /\ end_frame = 0
    /\ start_time = <<0, 1>> /\ end_time = <<0, 1>> /\ y_loop = <<0, 0>>

InitSchedule ==
    /\ spc = "start"
    /\ y_loop_len \in YLoopLens
    /\ onset_frames \in SeqsUpTo(OnsetFrameChoices, MaxOnsets)
    /\ \A i \in 1..Len(onset_frames) : onset_frames[i] <= y_loop_len \div hop_length
    /\ tempo \in Tempos
    /\ quantization \in Quantizations
    /\ sorted_onsets = <<>>
    /\ oi = 0
    /\ segment = NoSegment /\ seg_len = 0 /\ avg_centroid = 0 /\ note = 0
    /\ abs_ticks = 0 /\ raw_ticks = 0 /\ duration_ticks = 0
    /\ events = <<>> /\ track = <<>> /\ last_ticks = 0
    /\ InitLoopIdle
    /\ InitJobsIdle

\* core.py 135-150: the track with its set_tempo message, sorted(onset_times).
StartTrack ==
    /\ spc = "start"
    /\ track' = <<[type |-> "set_tempo", note |-> 0, velocity |-> 0, time |-> 0]>>
    /\ sorted_onsets' = SortedOnsetTimes(onset_frames)
    /\ oi' = 1
    /\ spc' = "onsets"
    /\ UNCHANGED <<y_loop_len, onset_frames, tempo, quantization, segment, seg_len,
                   avg_centroid, note, abs_ticks, raw_ticks, duration_ticks, events,
                   last_ticks>>
    /\ UNCHANGED loopVars
    /\ UNCHANGED jobVars

\* core.py 152-198: one iteration of the for-loop over sorted_onsets.
ProcessOnset ==
    /\ spc = "onsets"
    /\ oi <= Len(sorted_onsets)
    /\ LET onset_time   == sorted_onsets[oi]
           start_sample == IntOf(<<onset_time[1] * sr, onset_time[2]>>)
           end_sample   == Min(start_sample + IntOf(<<5 * sr, 100>>), y_loop_len)
           ticks        == time_to_ticks(onset_time)
           grid_ticks   == GridTicks(quantization)
       IN  /\ seg_len' = Max(end_sample - start_sample, 0)
           /\ IF end_sample > start_sample
              THEN \E S \in Spectra, c \in Centroids :
                      /\ segment' = S
                      /\ avg_centroid' = c
                      /\ note' = Classify(S, c)
              ELSE /\ segment' = NoSegment
                   /\ avg_centroid' = 0
                   /\ note' = SNARE
           /\ raw_ticks' = ticks
           /\ IF quantization > 0 /\ grid_ticks = 0
              THEN \* round(abs_ticks / 0): ZeroDivisionError
                   /\ spc' = "error"
                   /\ UNCHANGED <<abs_ticks, duration_ticks, events, oi>>
              ELSE /\ abs_ticks' = IF quantization > 0 THEN Snap(ticks, grid_ticks)
                                                          ELSE ticks
                   /\ duration_ticks' = time_to_ticks(<<1, 10>>)
                   /\ events' = events \o
                        << [ticks |-> abs_ticks', type |-> "note_on",
                            note |-> note', velocity |-> NOTE_VELOCITY],
                           [ticks |-> abs_ticks' + duration_ticks', type |-> "note_off",
                            note |-> note', velocity |-> 0] >>
                   /\ oi' = oi + 1
                   /\ spc' = "onsets"
    /\ UNCHANGED <<y_loop_len, onset_frames, sorted_onsets, tempo, quantization,
                   track, last_ticks>>
    /\ UNCHANGED loopVars
    /\ UNCHANGED jobVars

\* core.py 201-203: events.sort, last_ticks = 0.
SortAllEvents ==
    /\ spc = "onsets"
    /\ oi > Len(sorted_onsets)
    /\ events' = SortEvents(events)
    /\ last_ticks' = 0
    /\ spc' = "emit"
    /\ UNCHANGED <<y_loop_len, onset_frames, sorted_onsets, tempo, quantization, oi,
                   segment, seg_len, avg_centroid, note, abs_ticks, raw_ticks,
                   duration_ticks, track>>
    /\ UNCHANGED loopVars
    /\ UNCHANGED jobVars

\* core.py 205-212: one iteration of the emission loop.
EmitEvent ==
    /\ spc = "emit"
    /\ Len(track) - 1 < Len(events)
    /\ LET e     == events[Len(track)]
           delta == e.ticks - last_ticks
       IN  /\ track' = Append(track, [type |-> e.type, note |-> e.note,
                                      velocity |-> e.velocity,
                                      time |-> IF delta < 0 THEN 0 ELSE delta])
           /\ last_ticks' = e.ticks
    /\ UNCHANGED <<spc, y_loop_len, onset_frames, sorted_onsets, tempo, quantization,
                   oi, segment, seg_len, avg_centroid, note, abs_ticks, raw_ticks,
                   duration_ticks, events>>
    /\ UNCHANGED loopVars
    /\ UNCHANGED jobVars

\* core.py 214-215: mid.save(midi_output).
SaveMidi ==
    /\ spc = "emit"
    /\ Len(track) - 1 = Len(events)
    /\ spc' = "done"
    /\ UNCHANGED <<y_loop_len, onset_frames, sorted_onsets, tempo, quantization, oi,
                   segment, seg_len, avg_centroid, note, abs_ticks, raw_ticks,
                   duration_ticks, events, track, last_ticks>>
    /\ UNCHANGED loopVars
    /\ UNCHANGED jobVars

vars == <<schedVars, loopVars, jobVars, tempo>>

NextSchedule == StartTrack \/ ProcessOnset \/ SortAllEvents \/ EmitEvent \/ SaveMidi

SpecSchedule == InitSchedule /\ [][NextSchedule]_vars

\* ------------------------------------------------------------------------
\* Claims about the transcription loop (checked under SpecSchedule)
\* ------------------------------------------------------------------------
Written == Len(track) - 1            \* note messages written so far

\* Sum of the delta times of the first k note messages of the track.
RECURSIVE DeltaSum(_)
DeltaSum(k) == IF k = 0 THEN 0 ELSE track[k + 1].time + DeltaSum(k - 1)

\* At least one onset went through the whole loop body.
OnsetProcessed == spc \in {"onsets", "emit", "done"} /\ oi > 1

\* C1: the events written to the track, in emission order, have
\* non-decreasing absolute ticks (the position the deltas add up to is the
\* event's own tick), and every delta time written is >= 0.
C1_TicksNonDecreasing ==
    /\ \A k \in 1..Len(track) : track[k].time >= 0
    /\ spc \in {"emit", "done"} =>
          /\ \A i, j \in 1..Written : i <= j => events[i].ticks <= events[j].ticks
          /\ \A k \in 1..Written : DeltaSum(k) = events[k].ticks

\* A finished track of two overlapping notes: a zero delta and a positive one.
C1_Witness ==
    /\ spc = "done"
    /\ Written >= 4
    /\ \E k \in 2..Len(track) : track[k].time = 0
    /\ \E k \in 2..Len(track) : track[k].time > 0
    /\ \E k \in 2..Written : events[k].type = "note_on" /\ events[k - 1].type = "note_off"
                             /\ events[k].ticks > events[k - 1].ticks

\* C8: for every quantization_division > 0 the snap to the grid succeeds and
\* its result, snapped again to the same grid, is unchanged; with
\* quantization_division = 0 the tick is left as time_to_ticks gave it.
C8_QuantizeIdempotent ==
    /\ quantization > 0 => spc # "error"
    /\ (quantization > 0 /\ OnsetProcessed) =>
           Snap(abs_ticks, GridTicks(quantization)) = abs_ticks
    /\ (quantization = 0 /\ OnsetProcessed) => abs_ticks = raw_ticks

\* k is an integer nearest to n / d (d > 0).
IsNearest(k, n, d) ==
    LET diff == k * d - n
    IN  2 * (IF diff < 0 THEN -diff ELSE diff) <= d

\* C9: a zero-length segment gives Snare with no spectral features computed;
\* otherwise low_energy > 0.8 * high_energy gives Kick whatever the centroid;
\* otherwise centroid < 3500 Hz gives Snare; otherwise ClosedHiHat.  The note
\* is one of 36, 38, 42, is the one written to both events of the onset, and a
\* segment whose energy lies only below 150 Hz is Kick.
C9_VoiceRule ==
    OnsetProcessed =>
        LET low  == LowEnergy(segment)
            high == HighEnergy(segment)
            only_below_150 ==
                /\ \E b \in DOMAIN segment : segment[b] > 0
                /\ \A b \in DOMAIN segment : segment[b] > 0 => b * sr < 150 * N_FFT
        IN  /\ note \in {36, 38, 42}
            /\ seg_len = 0 => note = 38 /\ segment = NoSegment
            /\ (seg_len > 0 /\ 10 * low > 8 * high) => note = 36
            /\ (seg_len > 0 /\ ~(10 * low > 8 * high) /\ avg_centroid < 3500) => note = 38
            /\ (seg_len > 0 /\ ~(10 * low > 8 * high) /\ ~(avg_centroid < 3500)) => note = 42
            /\ (seg_len > 0 /\ only_below_150) => note = 36
            /\ spc = "onsets" =>
                  /\ events[Len(events)].note = note
                  /\ events[Len(events) - 1].note = note

\* A bright segment (centroid at 3500 Hz) with energy below and above the
\* bands' edges whose low band still wins: Kick.
C9_Witness ==
    /\ OnsetProcessed
    /\ seg_len > 0
    /\ avg_centroid >= 3500
    /\ HighEnergy(segment) > 0
    /\ 10 * LowEnergy(segment) > 8 * HighEnergy(segment)
    /\ note = 36

\* C10: the unquantized tick of an onset, and the 0.1 s note length in ticks,
\* is the integer nearest to time_seconds * (tempo_bpm / 60) * ticks_per_beat.
C10_RoundsToNearest ==
    OnsetProcessed =>
        LET t == sorted_onsets[oi - 1]
        IN  /\ IsNearest(raw_ticks, t[1] * tempo * ticks_per_beat, t[2] * 60)
            /\ IsNearest(duration_ticks, 1 * tempo * ticks_per_beat, 10 * 60)

\* ------------------------------------------------------------------------
\* Loop-window search: core.py 91-118
\* ------------------------------------------------------------------------
YLens == {100, 512, 1000, 1024, 1536, 2000, 2048}          \* stem lengths in samples
LoopTempos == {120, 20000, 25000, 41343, 41344, 60000, 100000}
Strengths == 0..2                                          \* onset-strength values

InitScheduleIdle ==
    /\ spc = "idle" /\ y_loop_len = 0 /\ onset_frames = <<>> /\ sorted_onsets = <<>>
    /\ quantization = 0 /\ oi = 0 /\ segment = NoSegment /\ seg_len = 0
    /\ avg_centroid = 0 /\ note = 0 /\ abs_ticks = 0 /\ raw_ticks = 0
    /\ duration_ticks = 0 /\ events = <<>> /\ track = <<>> /\ last_ticks = 0

\* Frames of librosa.onset.onset_strength(y, sr) (centred, hop 512).
EnvelopeFrames(n) == 1 + n \div hop_length

InitLoop ==
    /\ lpc = "start"
    /\ y_len \in YLens
    /\ tempo \in LoopTempos
    /\ onset_env \in [1..EnvelopeFrames(y_len) -> Strengths]
    /\ window_frames = 0 /\ start_frame = 0 /\ end_frame = 0
    /\ start_time = <<0, 1>> /\ end_time = <<0, 1>> /\ y_loop = <<0, 0>>
    /\ InitScheduleIdle
    /\ InitJobsIdle

\* duration_4_bars = 16 * (60 / tempo); int(duration_4_bars * sr / hop_length)
WindowFrames(bpm) == (16 * 60 * sr) \div (bpm * hop_length)

\* np.convolve(onset_env, np.ones(w), mode='valid')[k], k 0-based.
WindowSum(env, w, k) ==
    LET RECURSIVE Sum(_)
        Sum(i) == IF i = 0 THEN 0 ELSE env[k + i] + Sum(i - 1)
    IN  Sum(w)

\* np.argmax over the valid window sums: the first index of the maximum.
ArgMaxWindow(env, w) ==
    LET ks == 0..(Len(env) - w)
    IN  CHOOSE k \in ks :
            /\ \A j \in ks : WindowSum(env, w, j) <= WindowSum(env, w, k)
            /\ \A j \in ks : j < k => WindowSum(env, w, j) < WindowSum(env, w, k)

\* librosa.times_like(onset_env, sr=sr)[i], i 0-based.
TimesAt(i) == frames_to_time(i)

\* core.py 91-100
ComputeWindowFrames ==
    /\ lpc = "start"
    /\ window_frames' = WindowFrames(tempo)
    /\ lpc' = "window"
    /\ UNCHANGED <<y_len, onset_env, start_frame, end_frame, start_time, end_time,
                   y_loop, tempo>>
    /\ UNCHANGED schedVars
    /\ UNCHANGED jobVars

\* core.py 102-108
SelectWindow ==
    /\ lpc = "window"
    /\ IF window_frames >= Len(onset_env)
       THEN /\ start_frame' = 0
            /\ end_frame' = Len(onset_env)
            /\ lpc' = "selected"
       ELSE IF window_frames = 0
       THEN \* np.convolve with an empty window raises ValueError
            /\ lpc' = "error"
            /\ UNCHANGED <<start_frame, end_frame>>
       ELSE /\ start_frame' = ArgMaxWindow(onset_env, window_frames)
            /\ end_frame' = start_frame' + window_frames
            /\ lpc' = "selected"
    /\ UNCHANGED <<y_len, onset_env, window_frames, start_time, end_time, y_loop, tempo>>
    /\ UNCHANGED schedVars
    /\ UNCHANGED jobVars

\* core.py 110-111
MapToTimes ==
    /\ lpc = "selected"
    /\ start_time' = TimesAt(start_frame)
    /\ end_time' = TimesAt(Min(end_frame, Len(onset_env) - 1))
    /\ lpc' = "mapped"
    /\ UNCHANGED <<y_len, onset_env, window_frames, start_frame, end_frame, y_loop, tempo>>
    /\ UNCHANGED schedVars
    /\ UNCHANGED jobVars

\* y[lo:hi] of a buffer of n samples, as the index range it keeps.
Slice(n, lo, hi) == <<Min(lo, n), Max(Min(lo, n), Min(hi, n))>>

\* core.py 116-118
Crop ==
    /\ lpc = "mapped"
    /\ y_loop' = Slice(y_len, IntOf(<<start_time[1] * sr, start_time[2]>>),
                              IntOf(<<end_time[1] * sr, end_time[2]>>))
    /\ lpc' = "cropped"
    /\ UNCHANGED <<y_len, onset_env, window_frames, start_frame, end_frame,
                   start_time, end_time, tempo>>
    /\ UNCHANGED schedVars
    /\ UNCHANGED jobVars

NextLoop == ComputeWindowFrames \/ SelectWindow \/ MapToTimes \/ Crop

SpecLoop == InitLoop /\ [][NextLoop]_vars

\* ------------------------------------------------------------------------
\* Claims about the loop-window search (checked under SpecLoop)
\* ------------------------------------------------------------------------
\* The buffer lasts at least the 4-bar window: y_len / sr >= 16 * 60 / tempo.
BufferHoldsWindow == y_len * tempo >= 16 * 60 * sr

C3_ShortBufferWholeSpan ==
    (lpc = "cropped" /\ window_frames >= Len(onset_env)) =>
        /\ start_time = <<0, 1>>
        /\ end_time = Rat(y_len, sr)
        /\ y_loop = <<0, y_len>>

\* ------------------------------------------------------------------------
\* The service: main.py, running process_audio (core.py) per task
\* ------------------------------------------------------------------------
Filenames == {[base |-> "song", ext |-> "mp3"]}   \* file.filename of an upload
Modes == {"midi", "drums"}                        \* the mode form field
JobQuantizations == {16, 1921}                    \* the quantization query parameter
StemSamples == {0, 1}                             \* stem length: none, or some samples
JobTempos == {0, 120}                             \* beat_track results (0: no beat found)

otherVars == <<schedVars, loopVars, tempo>>

\* temp_file = f"temp_{task_id}_{file.filename}"
TempFile(task_id, filename) == [kind |-> "temp", task_id |-> task_id, filename |-> filename]

\* filename_stem = Path(file_path).stem: the name without its last suffix.
FilenameStem(file_path) == [task_id |-> file_path.task_id, base |-> file_path.filename.base]

\* core.py 25-31
DemucsTarget(mode) ==
    IF mode = "vocals" THEN "vocals"
    ELSE IF mode = "bass" THEN "bass"
    ELSE IF mode = "drums" THEN "drums"
    ELSE "drums"

\* The paths process_audio derives from filename_stem.
StemPath(t) == [kind |-> "separated", stem |-> FilenameStem(args[t].temp_file),
                target |-> DemucsTarget(args[t].mode)]
LoopPath(t) == [kind |-> "temp_loop", stem |-> FilenameStem(args[t].temp_file)]
MidiPath(t) == [kind |-> "output_mid", stem |-> FilenameStem(args[t].temp_file)]
WavPath(t) == [kind |-> "output_wav", stem |-> FilenameStem(args[t].temp_file),
               target |-> DemucsTarget(args[t].mode)]
SpectrogramPath(t) == [kind |-> "spectrogram", stem |-> FilenameStem(args[t].temp_file)]

Exists(path) == \E f \in files : f.path = path
FileAt(path) == (CHOOSE f \in files : f.path = path).content
Write(path, content) ==
    {f \in files : f.path # path} \cup {[path |-> path, content |-> content]}

InitJobs ==
    /\ InitJobsIdle
    /\ InitScheduleIdle
    /\ InitLoopIdle
    /\ tempo = 0

At(t, label) == pc[t] = label
Goto(t, label) == pc' = [pc EXCEPT ![t] = label]

\* An exception leaves process_audio.
Raise(t, exc) ==
    /\ raised' = [raised EXCEPT ![t] = exc]
    /\ Goto(t, "raised")

\* The progress milestones process_audio reports (core.py 33, 52, 74, 89, 122, 70/230).
MilestoneLate(stage) ==
    CASE stage = "separating"  -> 5
      [] stage = "spectrogram" -> 90
      [] stage = "loops"       -> 75
      [] stage = "tempo"       -> 70
      [] stage = "transcribe"  -> 85
      [] stage = "done"        -> 100

Milestone(stage) ==
    CASE stage = "separating"  -> 5
      [] stage = "spectrogram" -> 90
      [] stage = "loops"       -> 60
      [] stage = "tempo"       -> 70
      [] stage = "transcribe"  -> 85
      [] stage = "done"        -> 100

\* report(p, m): main.py's progress_callback stores both in the task entry.
Report(t, stage) ==
    /\ reports' = [reports EXCEPT ![t] = Append(@, Milestone(stage))]
    /\ tasks' = [tasks EXCEPT ![t].progress = Milestone(stage), ![t].message = stage]

\* main.py 49-68
ProcessEndpoint(t) ==
    /\ At(t, "idle")
    /\ t \notin DOMAIN tasks
    /\ \E fn \in Filenames, q \in JobQuantizations, m \in Modes :
          /\ files' = Write(TempFile(t, fn), [by |-> t, data |-> t])
          /\ args' = [args EXCEPT ![t] = [temp_file |-> TempFile(t, fn),
                                          quantization |-> q, mode |-> m]]
    /\ tasks' = [x \in DOMAIN tasks \cup {t} |->
                    IF x = t
                    THEN [status |-> "queued", progress |-> 0, message |-> "Queued",
                          tempo |-> 0, result |-> NoPath, spectrogram |-> NoPath]
                    ELSE tasks[x]]
    /\ Goto(t, "queued")
    /\ UNCHANGED <<y, job_tempo, raised, reports, stages, retval, figs, served>>
    /\ UNCHANGED otherVars

\* main.py 18-22
RunStart(t) ==
    /\ At(t, "queued")
    /\ tasks' = [tasks EXCEPT ![t].status = "processing", ![t].progress = 0,
                              ![t].message = "Starting..."]
    /\ Goto(t, "pa_start")
    /\ UNCHANGED <<args, y, job_tempo, raised, reports, stages, retval, files, figs, served>>
    /\ UNCHANGED otherVars

\* core.py 22-33
ReportSeparating(t) ==
    /\ At(t, "pa_start")
    /\ Report(t, "separating")
    /\ Goto(t, "demucs")
    /\ UNCHANGED <<args, y, job_tempo, raised, stages, retval, files, figs, served>>
    /\ UNCHANGED otherVars

\* core.py 37-39: the external separation process.  It fails, or ends without
\* the expected stem file, or writes the stem (possibly with no samples).
RunDemucs(t) ==
    /\ At(t, "demucs")
    /\ stages' = [stages EXCEPT ![t] = @ \cup {"separation"}]
    /\ \/ /\ Raise(t, "CalledProcessError")
          /\ UNCHANGED files
       \/ /\ Goto(t, "check_stem")
          /\ UNCHANGED <<files, raised>>
       \/ /\ Exists(args[t].temp_file)
          /\ \E n \in StemSamples :
                files' = Write(StemPath(t), [by |-> t,
                                             data |-> FileAt(args[t].temp_file).data,
                                             samples |-> n])
          /\ Goto(t, "check_stem")
          /\ UNCHANGED raised
    /\ UNCHANGED <<tasks, args, y, job_tempo, reports, retval, figs, served>>
    /\ UNCHANGED otherVars

\* core.py 41-48
LoadStem(t) ==
    /\ At(t, "check_stem")
    /\ IF ~Exists(StemPath(t))
       THEN /\ Raise(t, "FileNotFoundError")
            /\ UNCHANGED <<y, stages>>
       ELSE /\ y' = [y EXCEPT ![t] = [src |-> FileAt(StemPath(t)).data,
                                      samples |-> FileAt(StemPath(t)).samples]]
            /\ stages' = [stages EXCEPT ![t] = @ \cup {"load"}]
            /\ Goto(t, "loaded")
            /\ UNCHANGED raised
    /\ UNCHANGED <<tasks, args, job_tempo, reports, retval, files, figs, served>>
    /\ UNCHANGED otherVars

\* core.py 51-52 and 74
ReportMode(t) ==
    /\ At(t, "loaded")
    /\ IF args[t].mode # "midi"
       THEN Report(t, "spectrogram") /\ Goto(t, "figure")
       ELSE Report(t, "loops") /\ Goto(t, "m_tempo")
    /\ UNCHANGED <<args, y, job_tempo, raised, stages, retval, files, figs, served>>
    /\ UNCHANGED otherVars

\* core.py 78-87: low-pass filter and librosa.beat.beat_track, which computes
\* an onset envelope of the full signal itself.  On a stem without samples the
\* library either raises or finds no beat (tempo 0).
EstimateTempo(t) ==
    /\ At(t, "m_tempo")
    /\ stages' = [stages EXCEPT ![t] = @ \cup {"tempo"}]
    /\ \/ /\ y[t].samples = 0
          /\ Raise(t, "ParameterError")
          /\ UNCHANGED job_tempo
       \/ /\ \E bpm \in JobTempos :
                /\ y[t].samples = 0 => bpm = 0
                /\ job_tempo' = [job_tempo EXCEPT ![t] = bpm]
          /\ Goto(t, "m_report70")
          /\ UNCHANGED raised
    /\ UNCHANGED <<tasks, args, y, reports, retval, files, figs, served>>
    /\ UNCHANGED otherVars

\* core.py 89
ReportTempo(t) ==
    /\ At(t, "m_report70")
    /\ Report(t, "tempo")
    /\ Goto(t, "m_window")
    /\ UNCHANGED <<args, y, job_tempo, raised, stages, retval, files, figs, served>>
    /\ UNCHANGED otherVars

\* core.py 92-118: 60 / tempo, the envelope, the window, the crop, sf.write.
SelectLoop(t) ==
    /\ At(t, "m_window")
    /\ IF job_tempo[t] = 0
       THEN /\ Raise(t, "ZeroDivisionError")
            /\ UNCHANGED <<stages, files>>
       ELSE /\ stages' = [stages EXCEPT ![t] = @ \cup {"envelope", "window"}]
            /\ files' = Write(LoopPath(t), [by |-> t, data |-> y[t].src])
            /\ Goto(t, "m_report85")
            /\ UNCHANGED raised
    /\ UNCHANGED <<tasks, args, y, job_tempo, reports, retval, figs, served>>
    /\ UNCHANGED otherVars

\* core.py 121-122
ReportTranscribing(t) ==
    /\ At(t, "m_report85")
    /\ Report(t, "transcribe")
    /\ Goto(t, "m_transcribe")
    /\ UNCHANGED <<args, y, job_tempo, raised, stages, retval, files, figs, served>>
    /\ UNCHANGED otherVars

\* core.py 125-215: load the loop file, detect onsets, schedule, mid.save.
\* With at least one onset the quantize step divides by grid_ticks.
Transcribe(t) ==
    /\ At(t, "m_transcribe")
    /\ stages' = [stages EXCEPT ![t] = @ \cup {"transcribe"}]
    /\ \E has_onsets \in BOOLEAN :
          IF has_onsets /\ args[t].quantization > 0 /\ GridTicks(args[t].quantization) = 0
          THEN /\ Raise(t, "ZeroDivisionError")
               /\ UNCHANGED <<y, files>>
          ELSE /\ y' = [y EXCEPT ![t].src = FileAt(LoopPath(t)).data]
               /\ files' = Write(MidiPath(t), [by |-> t, data |-> FileAt(LoopPath(t)).data])
               /\ Goto(t, "figure")
               /\ UNCHANGED raised
    /\ UNCHANGED <<tasks, args, job_tempo, reports, retval, figs, served>>
    /\ UNCHANGED otherVars

\* core.py 55 and 218: plt.figure() opens a figure and makes it current.
Figure(t) ==
    /\ At(t, "figure")
    /\ figs' = Append(figs, {})
    /\ Goto(t, "draw")
    /\ UNCHANGED <<tasks, args, y, job_tempo, raised, reports, stages, retval, files, served>>
    /\ UNCHANGED otherVars

\* core.py 56-60 and 220-224: stft of the job's own signal (may raise), then
\* specshow, colorbar, title, tight_layout, all on pyplot's current figure.
Draw(t) ==
    /\ At(t, "draw")
    /\ stages' = [stages EXCEPT ![t] = @ \cup {"spectrogram"}]
    /\ \/ /\ Raise(t, "ParameterError")
          /\ UNCHANGED figs
       \/ /\ figs' = IF figs = <<>> THEN << {y[t].src} >>
                     ELSE [figs EXCEPT ![Len(figs)] = @ \cup {y[t].src}]
          /\ Goto(t, "save")
          /\ UNCHANGED raised
    /\ UNCHANGED <<tasks, args, y, job_tempo, reports, retval, files, served>>
    /\ UNCHANGED otherVars

\* core.py 62-63 and 226-227: plt.savefig writes pyplot's current figure.
SaveFig(t) ==
    /\ At(t, "save")
    /\ figs' = IF figs = <<>> THEN << {} >> ELSE figs
    /\ files' = Write(SpectrogramPath(t), [by |-> t, data |-> figs'[Len(figs')]])
    /\ Goto(t, "close")
    /\ UNCHANGED <<tasks, args, y, job_tempo, raised, reports, stages, retval, served>>
    /\ UNCHANGED otherVars

\* core.py 64 and 228: plt.close() closes pyplot's current figure.
CloseFig(t) ==
    /\ At(t, "close")
    /\ figs' = IF figs = <<>> THEN figs ELSE SubSeq(figs, 1, Len(figs) - 1)
    /\ Goto(t, IF args[t].mode # "midi" THEN "copy" ELSE "return")
    /\ UNCHANGED <<tasks, args, y, job_tempo, raised, reports, stages, retval, files, served>>
    /\ UNCHANGED otherVars

\* core.py 66-68
CopyStem(t) ==
    /\ At(t, "copy")
    /\ files' = Write(WavPath(t), [by |-> t, data |-> FileAt(StemPath(t)).data])
    /\ Goto(t, "return")
    /\ UNCHANGED <<tasks, args, y, job_tempo, raised, reports, stages, retval, figs, served>>
    /\ UNCHANGED otherVars

\* core.py 70-71 and 230-232
Return(t) ==
    /\ At(t, "return")
    /\ Report(t, "done")
    /\ retval' = [retval EXCEPT ![t] =
                    IF args[t].mode # "midi"
                    THEN [midi_path |-> WavPath(t), tempo |-> 0,
                          spectrogram_path |-> SpectrogramPath(t)]
                    ELSE [midi_path |-> MidiPath(t), tempo |-> job_tempo[t],
                          spectrogram_path |-> SpectrogramPath(t)]]
    /\ Goto(t, "returned")
    /\ UNCHANGED <<args, y, job_tempo, raised, stages, files, figs, served>>
    /\ UNCHANGED otherVars

\* main.py 28-30
CompleteStatus(t) ==
    /\ At(t, "returned")
    /\ tasks' = [tasks EXCEPT ![t].status = "complete"]
    /\ Goto(t, "complete")
    /\ UNCHANGED <<args, y, job_tempo, raised, reports, stages, retval, files, figs, served>>
    /\ UNCHANGED otherVars

\* main.py 31-35
CompleteFields(t) ==
    /\ At(t, "complete")
    /\ tasks' = [tasks EXCEPT ![t].progress = 100, ![t].message = "Complete",
                              ![t].tempo = retval[t].tempo,
                              ![t].result = retval[t].midi_path,
                              ![t].spectrogram = retval[t].spectrogram_path]
    /\ Goto(t, "finally")
    /\ UNCHANGED <<args, y, job_tempo, raised, reports, stages, retval, files, figs, served>>
    /\ UNCHANGED otherVars

\* An except clause that records the failed job as complete.
HandleExceptionAsComplete(t) ==
    /\ At(t, "raised")
    /\ tasks' = [tasks EXCEPT ![t].status = "complete", ![t].message = raised[t]]
    /\ Goto(t, "finally")
    /\ UNCHANGED <<args, y, job_tempo, raised, reports, stages, retval, files, figs, served>>
    /\ UNCHANGED otherVars

\* main.py 37-39
HandleException(t) ==
    /\ At(t, "raised")
    /\ tasks' = [tasks EXCEPT ![t].status = "error", ![t].message = raised[t]]
    /\ Goto(t, "finally")
    /\ UNCHANGED <<args, y, job_tempo, raised, reports, stages, retval, files, figs, served>>
    /\ UNCHANGED otherVars

\* main.py 40-43
Finally(t) ==
    /\ At(t, "finally")
    /\ files' = {f \in files : f.path # args[t].temp_file}
    /\ Goto(t, "done")
    /\ UNCHANGED <<tasks, args, y, job_tempo, raised, reports, stages, retval, figs, served>>
    /\ UNCHANGED otherVars

\* The guard of both download endpoints (main.py 78, 87).
DownloadReady(t) == t \in DOMAIN tasks /\ tasks[t].status = "complete"

\* FileResponse(path): sends the file when there is one.
Serve(t, path) ==
    IF path # NoPath /\ Exists(path)
    THEN served' = served \cup {[task |-> t, path |-> path]}
    ELSE UNCHANGED served

\* main.py 76-83
DownloadResult(t) ==
    /\ IF DownloadReady(t) THEN Serve(t, tasks[t].result) ELSE UNCHANGED served
    /\ UNCHANGED <<tasks, pc, args, y, job_tempo, raised, reports, stages, retval, files, figs>>
    /\ UNCHANGED otherVars

\* main.py 85-90
DownloadSpectrogram(t) ==
    /\ IF DownloadReady(t) THEN Serve(t, tasks[t].spectrogram) ELSE UNCHANGED served
    /\ UNCHANGED <<tasks, pc, args, y, job_tempo, raised, reports, stages, retval, files, figs>>
    /\ UNCHANGED otherVars

Next ==
    \E t \in TaskIds :
        \/ ProcessEndpoint(t) \/ RunStart(t) \/ ReportSeparating(t) \/ RunDemucs(t)
        \/ LoadStem(t) \/ ReportMode(t) \/ EstimateTempo(t) \/ ReportTempo(t)
        \/ SelectLoop(t) \/ ReportTranscribing(t) \/ Transcribe(t)
        \/ Figure(t) \/ Draw(t) \/ SaveFig(t) \/ CloseFig(t) \/ CopyStem(t) \/ Return(t)
        \/ CompleteStatus(t) \/ CompleteFields(t) \/ HandleException(t) \/ Finally(t)
        \/ DownloadResult(t) \/ DownloadSpectrogram(t)

Spec == InitJobs /\ [][Next]_vars

\* ------------------------------------------------------------------------
\* Claims about the service and its jobs (checked under Spec)
\* ------------------------------------------------------------------------
Ended(t) == pc[t] \in {"returned", "complete", "finally", "done"}

\* C4: when the separated stem has zero samples the job fails with
\* EmptyInputError, and no onset-envelope computation or later stage is
\* entered for it.
C4_EmptyStemFails ==
    \A t \in TaskIds :
        ("load" \in stages[t] /\ y[t].samples = 0) =>
            /\ stages[t] \cap {"envelope", "window", "transcribe", "spectrogram"} = {}
            /\ Ended(t) => raised[t] = "EmptyInputError"

C5_Inv ==
    \A t \in TaskIds :
        raised[t] # "none" =>
            /\ retval[t] = NoValue
            /\ tasks[t].status # "complete"
            /\ tasks[t].result = NoPath
            /\ tasks[t].spectrogram = NoPath
            /\ \A s \in served : s.task # t
            /\ pc[t] \in {"finally", "done"} => tasks[t].status = "error"

C5_Step ==
    \A t \in DOMAIN tasks : tasks[t].status = "error" => tasks'[t].status = "error"

\* C5: a job whose process_audio raised returns nothing, ends with status
\* 'error' and never 'complete' afterwards, keeps result and spectrogram
\* unset, and no download endpoint ever serves a file for it.
C5_FailureIsTerminal == [](C5_Inv) /\ [][C5_Step]_vars

\* A job that failed for want of the stem file has ended in 'error' while the
\* other job completed and had its result downloaded.
C5_Witness ==
    \E t, u \in DOMAIN tasks :
        /\ raised[t] = "FileNotFoundError" /\ pc[t] = "done"
        /\ tasks[t].status = "error"
        /\ u # t /\ tasks[u].status = "complete"
        /\ \E s \in served : s.task = u

StrictlyIncreasing(seq) == \A i, j \in 1..Len(seq) : i < j => seq[i] < seq[j]

C6_Inv ==
    \A t \in DOMAIN tasks :
        /\ tasks[t].progress \in 0..100
        /\ \A i \in 1..Len(reports[t]) : reports[t][i] \in 0..100
        /\ StrictlyIncreasing(reports[t])
        /\ tasks[t].status = "complete" => tasks[t].progress = 100
        /\ retval[t] # NoValue => reports[t][Len(reports[t])] = 100

C6_Step ==
    \A t \in DOMAIN tasks : tasks'[t].progress >= tasks[t].progress

\* C6: in both modes the progress values delivered through the callback
\* increase, the stored progress never decreases, both stay within 0..100, and
\* a job that succeeds has progress 100 when it completes.
C6_ProgressMonotone == [](C6_Inv) /\ [][C6_Step]_vars

\* One job completed in each mode, each through all of its milestones.
C6_Witness ==
    \E t, u \in DOMAIN tasks :
        /\ args[t].mode = "midi" /\ tasks[t].status = "complete"
        /\ reports[t] = <<5, 60, 70, 85, 100>>
        /\ args[u].mode = "drums" /\ tasks[u].status = "complete"
        /\ reports[u] = <<5, 90, 100>>

\* C7: concurrent jobs never interfere: every file holds what the job it
\* belongs to wrote, every job reads only data derived from its own upload,
\* and a job that returned has the spectrogram it would produce alone (the
\* plot of its own signal, nothing else).
C7_NoInterference ==
    /\ \A f \in files :
          f.path.kind # "temp" => f.content.by = f.path.stem.task_id
    /\ \A t \in TaskIds : y[t].src \in {"none", t}
    /\ \A t \in TaskIds :
          retval[t] # NoValue => FileAt(SpectrogramPath(t)).data = {t}

====
